---- MODULE Spec2Model ----
(***************************************************************************)
(* Model of Assignment3/interpreter.py: the lambda-calculus interpreter    *)
(* with capture-avoiding substitution, normal-order evaluation and the     *)
(* linearizer.                                                             *)
(*                                                                         *)
(* An AST node is the Python tuple of the source, written as a TLA+ tuple  *)
(* with the tag first, so tree[0] of the source is tree[1] here:           *)
(*   ('var', n) ('num', v) ('lam', n, b) ('app', f, a)                     *)
(*   ('plus', l, r) ('minus', l, r) ('times', l, r) ('neg', e)             *)
(* Every other tag (if, let, letrec, eq, nil, ...) is a node none of the   *)
(* three passes has a branch for.                                          *)
(*                                                                         *)
(* A float is a record [neg, mag] (sign and integral magnitude), so that   *)
(* the IEEE-754 signed zero that -0 and 0 * -1 produce is kept and printed *)
(* as str(float) prints it.                                                *)
(*                                                                         *)
(* evaluate is a machine with an explicit call stack: one frame per active *)
(* Python call of evaluate, one action per step of its body.  substitute   *)
(* and linearize are structural recursions over a finite tree and are      *)
(* operators; substitute threads the state of the global name generator.   *)
(***************************************************************************)
EXTENDS Integers, Sequences, FiniteSets, TLC

VARIABLES
    counter,     \* name_generator.counter
    generated,   \* history: the names generate() has returned, in order
    phase,       \* "idle" | "running" | "done": position of the caller
    call,        \* the top-level call being made / last made
    stack,       \* active evaluate frames, innermost last
    ctl,         \* control: a pending call of evaluate, a return or a raise
    outcome,     \* how the top-level call ended
    evalCalls    \* history: number of evaluate calls made by this top-level call

vars == <<counter, generated, phase, call, stack, ctl, outcome, evalCalls>>

-----------------------------------------------------------------------------
(* Bounds *)

\* stand-in for the host's recursion limit (sys.getrecursionlimit())
MaxDepth == 7

\* no new top-level call is started once the counter has passed this value
MaxCounter == 2

-----------------------------------------------------------------------------
(* Floats *)

Flt(n) == [neg |-> n < 0, mag |-> IF n < 0 THEN -n ELSE n]

Signed(v) == IF v.neg THEN -v.mag ELSE v.mag

FAdd(a, b) ==
    LET s == Signed(a) + Signed(b)
    IN  IF s # 0 THEN Flt(s)
        ELSE [neg |-> a.mag = 0 /\ b.mag = 0 /\ a.neg /\ b.neg, mag |-> 0]

FNeg(a) == [neg |-> ~a.neg, mag |-> a.mag]

FSub(a, b) == FAdd(a, FNeg(b))

FMul(a, b) == [neg |-> a.neg # b.neg, mag |-> a.mag * b.mag]

\* str(float) of an integral double: "3.0", "-1.0", "-0.0"
FloatStr(v) == (IF v.neg THEN "-" ELSE "") \o ToString(v.mag) \o ".0"

-----------------------------------------------------------------------------
(* AST constructors, as the transformer builds them *)

Var(n) == <<"var", n>>
Num(n) == <<"num", Flt(n)>>
Lam(n, b) == <<"lam", n, b>>
App(f, a) == <<"app", f, a>>
Plus(l, r) == <<"plus", l, r>>
Minus(l, r) == <<"minus", l, r>>
Times(l, r) == <<"times", l, r>>
Neg(e) == <<"neg", e>>

BinTags == {"plus", "minus", "times"}

KnownTags == {"var", "num", "lam", "app", "neg"} \cup BinTags

-----------------------------------------------------------------------------
(* Name generator *)

\* variant: the incremented counter is not stored
GenerateStale(g) ==
    LET fresh == "Var" \o ToString(g.counter + 1)
    IN  [name |-> fresh, g |-> [counter |-> g.counter, log |-> Append(g.log, fresh)]]

\* NameGenerator.generate on generator state g = [counter, log]
Generate(g) ==
    LET n == g.counter + 1
        fresh == "Var" \o ToString(n)
    IN  [name |-> fresh, g |-> [counter |-> n, log |-> Append(g.log, fresh)]]

-----------------------------------------------------------------------------
(* Capture-avoiding substitution *)

\* result of a call that returned
Ok(t, g) == [ok |-> TRUE, tree |-> t, g |-> g]

\* result of a call that raised Exception('Unknown tree', t)
Unknown(t, g) == [ok |-> FALSE, tree |-> t, g |-> g]

RECURSIVE substitute(_, _, _, _)

\* ('tag', substitute(tree[1], ..), substitute(tree[2], ..)): left, then right
SubstBoth(tree, name, replacement, g) ==
    LET l == substitute(tree[2], name, replacement, g)
    IN  IF ~l.ok THEN l
        ELSE LET r == substitute(tree[3], name, replacement, l.g)
             IN  IF ~r.ok THEN r
                 ELSE Ok(<<tree[1], l.tree, r.tree>>, r.g)

\* variant: the bound variable keeps its name (no alpha-renaming)
SubstLamNoRename(tree, name, replacement, g) ==
    LET b == substitute(tree[3], name, replacement, g)
    IN  IF ~b.ok THEN b ELSE Ok(<<"lam", tree[2], b.tree>>, b.g)

\* the 'lam' branch when the bound variable is not the substituted name
SubstLam(tree, name, replacement, g) ==
    LET bound == tree[2]
        body == tree[3]
        f == Generate(g)
        renamed_body == substitute(body, bound, <<"var", f.name>>, f.g)
    IN  IF ~renamed_body.ok THEN renamed_body
        ELSE LET b == substitute(renamed_body.tree, name, replacement, renamed_body.g)
             IN  IF ~b.ok THEN b
                 ELSE Ok(<<"lam", f.name, b.tree>>, b.g)

\* substitute(tree, name, replacement) = tree[replacement/name]
substitute(tree, name, replacement, g) ==
    LET tag == tree[1]
    IN  CASE tag = "var" ->
               IF tree[2] = name THEN Ok(replacement, g) ELSE Ok(tree, g)
          [] tag = "lam" ->
               IF tree[2] = name THEN Ok(tree, g)
               ELSE SubstLam(tree, name, replacement, g)
          [] tag = "app" -> SubstBoth(tree, name, replacement, g)
          [] tag = "num" -> Ok(tree, g)
          [] tag \in BinTags -> SubstBoth(tree, name, replacement, g)
          [] tag = "neg" ->
               LET e == substitute(tree[2], name, replacement, g)
               IN  IF ~e.ok THEN e ELSE Ok(<<"neg", e.tree>>, e.g)
          [] OTHER -> Unknown(tree, g)

-----------------------------------------------------------------------------
(* Linearization *)

\* tags whose second component is a name (a str), not a subtree
NameTags == {"var", "lam", "let", "letrec"}

RECURSIVE PyStr(_)
RECURSIVE PyStrFrom(_, _)

\* repr of the components i.. of a tuple, joined by ", "
PyStrFrom(t, i) ==
    LET el == IF i = 2 /\ t[1] \in NameTags THEN "'" \o t[2] \o "'"
              ELSE IF i = 2 /\ t[1] = "num" THEN FloatStr(t[2])
              ELSE PyStr(t[i])
    IN  IF i = Len(t) THEN el ELSE el \o ", " \o PyStrFrom(t, i + 1)

\* str(ast) of a tuple node: "('nil',)", "('var', 'x')", "('num', 1.0)"
PyStr(t) ==
    IF Len(t) = 1 THEN "('" \o t[1] \o "',)"
    ELSE "('" \o t[1] \o "', " \o PyStrFrom(t, 2) \o ")"

RECURSIVE linearize(_)

linearize(ast) ==
    LET tag == ast[1]
    IN  CASE tag = "var" -> ast[2]
          [] tag = "num" -> FloatStr(ast[2])
          [] tag = "lam" -> "(" \o "\\" \o ast[2] \o "." \o linearize(ast[3]) \o ")"
          [] tag = "app" -> "(" \o linearize(ast[2]) \o " " \o linearize(ast[3]) \o ")"
          [] tag = "plus" -> "(" \o linearize(ast[2]) \o " + " \o linearize(ast[3]) \o ")"
          [] tag = "minus" -> "(" \o linearize(ast[2]) \o " - " \o linearize(ast[3]) \o ")"
          [] tag = "times" -> "(" \o linearize(ast[2]) \o " * " \o linearize(ast[3]) \o ")"
          [] tag = "neg" -> "(-" \o linearize(ast[2]) \o ")"
          [] OTHER -> PyStr(ast)

-----------------------------------------------------------------------------
(* Expressions the calls are made on *)

\* variants of the expression language that interpreter.py has no branch for
Nil == <<"nil">>
Eq(l, r) == <<"eq", l, r>>
If(c, t, e) == <<"if", c, t, e>>
LetRec(n, b, body) == <<"letrec", n, b, body>>

\* identifiers a user can write: they start with a lower-case letter
UserNames == {"x", "y", "a", "b", "f", "n"}

BoundNames == {"x", "y"}

Atoms == {Var("x"), Var("y"), Num(0), Num(1), Num(2), Nil}

Level1 ==
    Atoms
    \cup {Lam(n, b) : n \in BoundNames, b \in Atoms}
    \cup {App(f, a) : f \in Atoms, a \in Atoms}
    \cup {<<op, l, r>> : op \in BinTags, l \in Atoms, r \in Atoms}
    \cup {Neg(e) : e \in Atoms}

Redexes == {App(Lam(n, b), a) : n \in BoundNames, b \in Level1, a \in Atoms}

\* (\x.x x) (\x.x x)
Omega == App(Lam("x", App(Var("x"), Var("x"))), Lam("x", App(Var("x"), Var("x"))))

\* (\x.1) D for the arguments D of the normal-order property
ConstOne(D) == App(Lam("x", Num(1)), D)

Arguments == {Omega, Var("y"), Num(2), Nil, Plus(Num(1), Num(2)), App(Var("a"), Omega)}

\* letrec f = \n. if n == 0 then 1 else n * f (n - 1) in f k
Factorial(k) ==
    LetRec("f",
           Lam("n", If(Eq(Var("n"), Num(0)), Num(1),
                       Times(Var("n"), App(Var("f"), Minus(Var("n"), Num(1)))))),
           App(Var("f"), Num(k)))

Fact(k) == CASE k = 0 -> 1 [] k = 1 -> 1 [] k = 2 -> 2 [] k = 3 -> 6 [] k = 4 -> 24

FactArgs == 0 .. 4

\* \x.(\y.y) x
UnderLambda == Lam("x", App(Lam("y", Var("y")), Var("x")))

\* (\x.a x) ((\x.x) b)
StuckExample == App(Lam("x", App(Var("a"), Var("x"))), App(Lam("x", Var("x")), Var("b")))

\* (\x.\y. x) y
HygieneExample == App(Lam("x", Lam("y", Var("x"))), Var("y"))

Examples ==
    { UnderLambda, StuckExample, HygieneExample, Omega,
      \* (\x.\y. x + y) 3 4
      App(App(Lam("x", Lam("y", Plus(Var("x"), Var("y")))), Num(3)), Num(4)),
      \* 1 - 2 * 3 - 4
      Minus(Minus(Num(1), Times(Num(2), Num(3))), Num(4)),
      \* (\x.x) (---2)
      App(Lam("x", Var("x")), Neg(Neg(Neg(Num(2))))),
      \* (\x.x * x) 3
      App(Lam("x", Times(Var("x"), Var("x"))), Num(3)),
      \* 1 (\x.x): an application whose head is a number
      App(Num(1), App(Lam("x", Var("x")), Num(2))),
      \* a + (1 + 2), -(a b)
      Plus(Var("a"), Plus(Num(1), Num(2))),
      Neg(App(Var("a"), Var("b"))),
      \* if 0 then 2 else 1, if 1 then 2 else 2, if a then 1 + 1 else 2
      If(Num(0), Num(2), Num(1)),
      If(Num(1), Num(2), Num(2)),
      If(Var("a"), Plus(Num(1), Num(1)), Num(2)),
      \* \x.#
      Lam("x", Nil),
      \* # + 1, (\x. x + #) 1
      Plus(Nil, Num(1)),
      App(Lam("x", Plus(Var("x"), Nil)), Num(1)),
      \* (\x.\y.#) 1
      App(Lam("x", Lam("y", Nil)), Num(1)) }
    \cup {ConstOne(D) : D \in Arguments \cup Level1}
    \cup {Factorial(k) : k \in FactArgs}

EvalInputs == Level1 \cup Redexes \cup Examples

SubstTrees ==
    Level1
    \cup {Lam(n, t) : n \in BoundNames, t \in Level1}
    \cup {Lam("x", Lam("y", Var("x"))), Lam("y", Lam("x", App(Var("x"), Var("y"))))}

SubstNames == BoundNames

Replacements == {Var("y"), Var("x"), Num(1), App(Var("x"), Var("y")), Lam("y", Var("y"))}

LinearizeInputs == Level1 \cup Examples

-----------------------------------------------------------------------------
(* The state of the interpreter process *)

NoTree == <<>>

NoOutcome == [kind |-> "none", val |-> NoTree]

Returned(v) == [kind |-> "return", val |-> v]

\* a returned str, as a value: the text with its type
Text(s) == <<"str", s>>

Raised(exc, msg) == [kind |-> "raise", val |-> <<exc, msg>>]

Frame(tree, pc, left) == [tree |-> tree, pc |-> pc, left |-> left]

Top == stack[Len(stack)]

Pop == SubSeq(stack, 1, Len(stack) - 1)

Push(fr) == Append(stack, fr)

ReplaceTop(fr) == Append(Pop, fr)

NoCall == [op |-> "none", tree |-> NoTree, name |-> "", replacement |-> NoTree,
           counter0 |-> 0]

\* name_generator = NameGenerator()
Init ==
    /\ counter = 0
    /\ generated = <<>>
    /\ phase = "idle"
    /\ call = NoCall
    /\ stack = <<>>
    /\ ctl = [mode |-> "none", val |-> NoTree]
    /\ outcome = NoOutcome
    /\ evalCalls = 0

\* the caller is between two calls, and the model's bound on the counter allows one
CanCall == phase = "idle" /\ counter <= MaxCounter

-----------------------------------------------------------------------------
(* Top-level calls: the callers (interpret, the tests) use the three passes *)

\* result_ast = evaluate(ast): the call is entered
CallEvaluate ==
    /\ CanCall
    /\ \E t \in EvalInputs :
          /\ call' = [op |-> "evaluate", tree |-> t, name |-> "",
                      replacement |-> NoTree, counter0 |-> counter]
          /\ ctl' = [mode |-> "call", val |-> t]
    /\ phase' = "running"
    /\ stack' = <<>>
    /\ outcome' = NoOutcome
    /\ evalCalls' = 0
    /\ UNCHANGED <<counter, generated>>

\* substitute(tree, name, replacement), from call to return or raise
CallSubstitute ==
    /\ CanCall
    /\ \E t \in SubstTrees, n \in SubstNames, r \in Replacements :
          LET res == substitute(t, n, r, [counter |-> counter, log |-> generated])
          IN  /\ call' = [op |-> "substitute", tree |-> t, name |-> n,
                          replacement |-> r, counter0 |-> counter]
              /\ outcome' = IF res.ok THEN Returned(res.tree)
                            ELSE Raised("Exception", "Unknown tree")
              /\ counter' = res.g.counter
              /\ generated' = res.g.log
    /\ phase' = "done"
    /\ stack' = <<>>
    /\ ctl' = [mode |-> "none", val |-> NoTree]
    /\ evalCalls' = 0

\* linearize(ast), from call to return
CallLinearize ==
    /\ CanCall
    /\ \E t \in LinearizeInputs :
          /\ call' = [op |-> "linearize", tree |-> t, name |-> "",
                      replacement |-> NoTree, counter0 |-> counter]
          /\ outcome' = Returned(Text(linearize(t)))
    /\ phase' = "done"
    /\ stack' = <<>>
    /\ ctl' = [mode |-> "none", val |-> NoTree]
    /\ evalCalls' = 0
    /\ UNCHANGED <<counter, generated>>

-----------------------------------------------------------------------------
(* evaluate, one action per step of its body *)

\* evaluate(t) is being entered with room left on the host stack
Entering(tags) ==
    /\ phase = "running"
    /\ ctl.mode = "call"
    /\ Len(stack) < MaxDepth
    /\ ctl.val[1] \in tags

\* a call of evaluate has returned into the frame on top of the stack
ReturnedInto(pc) ==
    /\ phase = "running"
    /\ ctl.mode = "ret"
    /\ stack # <<>>
    /\ Top.pc = pc

\* the call would exceed the recursion limit: the host raises RecursionError
EvalRecursionError ==
    /\ phase = "running"
    /\ ctl.mode = "call"
    /\ Len(stack) >= MaxDepth
    /\ ctl' = [mode |-> "raise", val |-> <<"RecursionError", "maximum recursion depth exceeded">>]
    /\ UNCHANGED <<counter, generated, phase, call, stack, outcome, evalCalls>>

\* if tag == 'var': return tree
EvalVar ==
    /\ Entering({"var"})
    /\ ctl' = [mode |-> "ret", val |-> ctl.val]
    /\ evalCalls' = evalCalls + 1
    /\ UNCHANGED <<counter, generated, phase, call, stack, outcome>>

\* if tag == 'num': return tree
EvalNum ==
    /\ Entering({"num"})
    /\ ctl' = [mode |-> "ret", val |-> ctl.val]
    /\ evalCalls' = evalCalls + 1
    /\ UNCHANGED <<counter, generated, phase, call, stack, outcome>>

\* (\y.y) a --> a, anything else unchanged: one beta step of an identity redex
BetaIdentity(t) ==
    IF t[1] = "app" /\ t[2][1] = "lam" /\ t[2][3] = <<"var", t[2][2]>>
    THEN t[3] ELSE t

\* variant: the body of the lambda is reduced before it is returned
EvalLamReduces(tree) == <<"lam", tree[2], BetaIdentity(tree[3])>>

\* what evaluate returns for a 'lam' node
EvalLamResult(tree) == tree

\* if tag == 'lam': return tree
EvalLam ==
    /\ Entering({"lam"})
    /\ ctl' = [mode |-> "ret", val |-> EvalLamResult(ctl.val)]
    /\ evalCalls' = evalCalls + 1
    /\ UNCHANGED <<counter, generated, phase, call, stack, outcome>>

\* if tag == 'app': func = evaluate(tree[1])
EvalApp ==
    /\ Entering({"app"})
    /\ stack' = Push(Frame(ctl.val, "app_func", NoTree))
    /\ ctl' = [mode |-> "call", val |-> ctl.val[2]]
    /\ evalCalls' = evalCalls + 1
    /\ UNCHANGED <<counter, generated, phase, call, outcome>>

\* variant: call by value, the argument is evaluated before it is substituted
EvalAppBetaEager ==
    \/ /\ ReturnedInto("app_func")
       /\ ctl.val[1] = "lam"
       /\ stack' = ReplaceTop(Frame(Top.tree, "app_arg", ctl.val))
       /\ ctl' = [mode |-> "call", val |-> Top.tree[3]]
       /\ UNCHANGED <<counter, generated, phase, call, outcome, evalCalls>>
    \/ /\ ReturnedInto("app_arg")
       /\ LET func == Top.left
              res == substitute(func[3], func[2], ctl.val,
                                [counter |-> counter, log |-> generated])
          IN  /\ counter' = res.g.counter
              /\ generated' = res.g.log
              /\ IF res.ok
                 THEN /\ stack' = ReplaceTop(Frame(Top.tree, "app_tail", NoTree))
                      /\ ctl' = [mode |-> "call", val |-> res.tree]
                 ELSE /\ stack' = stack
                      /\ ctl' = [mode |-> "raise", val |-> <<"Exception", "Unknown tree">>]
       /\ UNCHANGED <<phase, call, outcome, evalCalls>>

\* if func[0] == 'lam': return evaluate(substitute(body, name, tree[2]))
\* (the substitution and the entry of the call; the frame waits for its result)
EvalAppBeta ==
    /\ ReturnedInto("app_func")
    /\ ctl.val[1] = "lam"
    /\ LET func == ctl.val
           name == func[2]
           body == func[3]
           res == substitute(body, name, Top.tree[3],
                             [counter |-> counter, log |-> generated])
       IN  /\ counter' = res.g.counter
           /\ generated' = res.g.log
           /\ IF res.ok
              THEN /\ stack' = ReplaceTop(Frame(Top.tree, "app_tail", NoTree))
                   /\ ctl' = [mode |-> "call", val |-> res.tree]
              ELSE /\ stack' = stack
                   /\ ctl' = [mode |-> "raise", val |-> <<"Exception", "Unknown tree">>]
    /\ UNCHANGED <<phase, call, outcome, evalCalls>>

\* variant: the argument of a stuck application is reduced
StuckAppReducesArg(func, tree) == <<"app", func, BetaIdentity(tree[3])>>

\* the residual of an application whose function is not a lambda
StuckApp(func, tree) == <<"app", func, tree[3]>>

\* func is not a lambda: return ('app', func, tree[2])
EvalAppStuck ==
    /\ ReturnedInto("app_func")
    /\ ctl.val[1] # "lam"
    /\ ctl' = [mode |-> "ret", val |-> StuckApp(ctl.val, Top.tree)]
    /\ stack' = Pop
    /\ UNCHANGED <<counter, generated, phase, call, outcome, evalCalls>>

\* return evaluate(...): the value of the call is the value of the frame
EvalAppReturn ==
    /\ ReturnedInto("app_tail")
    /\ ctl' = [mode |-> "ret", val |-> ctl.val]
    /\ stack' = Pop
    /\ UNCHANGED <<counter, generated, phase, call, outcome, evalCalls>>

\* if tag == 'plus' | 'minus' | 'times': left = evaluate(tree[1])
EvalBinLeft ==
    /\ Entering(BinTags)
    /\ stack' = Push(Frame(ctl.val, "bin_left", NoTree))
    /\ ctl' = [mode |-> "call", val |-> ctl.val[2]]
    /\ evalCalls' = evalCalls + 1
    /\ UNCHANGED <<counter, generated, phase, call, outcome>>

\* right = evaluate(tree[2])
EvalBinRight ==
    /\ ReturnedInto("bin_left")
    /\ stack' = ReplaceTop(Frame(Top.tree, "bin_right", ctl.val))
    /\ ctl' = [mode |-> "call", val |-> Top.tree[3]]
    /\ UNCHANGED <<counter, generated, phase, call, outcome, evalCalls>>

\* variant: the operands of the subtraction are exchanged
ArithSwapped(tag, l, r) ==
    CASE tag = "plus" -> FAdd(l, r)
      [] tag = "minus" -> FSub(r, l)
      [] tag = "times" -> FMul(l, r)

\* left[1] + right[1], left[1] - right[1], left[1] * right[1]
Arith(tag, l, r) ==
    CASE tag = "plus" -> FAdd(l, r)
      [] tag = "minus" -> FSub(l, r)
      [] tag = "times" -> FMul(l, r)

\* the value of a 'plus' | 'minus' | 'times' node from its evaluated operands
BinResult(tag, left, right) ==
    IF left[1] = "num" /\ right[1] = "num"
    THEN <<"num", Arith(tag, left[2], right[2])>>
    ELSE <<tag, left, right>>

\* if left[0] == 'num' and right[0] == 'num': return ('num', ..); return (tag, left, right)
EvalBinDone ==
    /\ ReturnedInto("bin_right")
    /\ ctl' = [mode |-> "ret", val |-> BinResult(Top.tree[1], Top.left, ctl.val)]
    /\ stack' = Pop
    /\ UNCHANGED <<counter, generated, phase, call, outcome, evalCalls>>

\* if tag == 'neg': operand = evaluate(tree[1])
EvalNeg ==
    /\ Entering({"neg"})
    /\ stack' = Push(Frame(ctl.val, "neg", NoTree))
    /\ ctl' = [mode |-> "call", val |-> ctl.val[2]]
    /\ evalCalls' = evalCalls + 1
    /\ UNCHANGED <<counter, generated, phase, call, outcome>>

\* if operand[0] == 'num': return ('num', -operand[1]); return ('neg', operand)
EvalNegDone ==
    /\ ReturnedInto("neg")
    /\ ctl' = [mode |-> "ret",
               val |-> IF ctl.val[1] = "num" THEN <<"num", FNeg(ctl.val[2])>>
                       ELSE <<"neg", ctl.val>>]
    /\ stack' = Pop
    /\ UNCHANGED <<counter, generated, phase, call, outcome, evalCalls>>

\* variant: a node of no known tag is returned as it is
EvalUnknownReturns(tree) == [mode |-> "ret", val |-> tree]

\* what evaluate does with a node of no known tag
EvalUnknownResult(tree) == [mode |-> "raise", val |-> <<"Exception", "Unknown node">>]

\* raise Exception('Unknown node', tree)
EvalUnknown ==
    /\ phase = "running"
    /\ ctl.mode = "call"
    /\ Len(stack) < MaxDepth
    /\ ctl.val[1] \notin KnownTags
    /\ ctl' = EvalUnknownResult(ctl.val)
    /\ evalCalls' = evalCalls + 1
    /\ UNCHANGED <<counter, generated, phase, call, stack, outcome>>

\* no frame of evaluate catches anything: an exception leaves the frame
EvalPropagate ==
    /\ phase = "running"
    /\ ctl.mode = "raise"
    /\ stack # <<>>
    /\ stack' = Pop
    /\ UNCHANGED <<counter, generated, phase, call, ctl, outcome, evalCalls>>

\* the outermost call of evaluate returns or raises to its caller
EvalFinish ==
    /\ phase = "running"
    /\ ctl.mode \in {"ret", "raise"}
    /\ stack = <<>>
    /\ outcome' = IF ctl.mode = "ret" THEN Returned(ctl.val)
                  ELSE Raised(ctl.val[1], ctl.val[2])
    /\ ctl' = [mode |-> "none", val |-> NoTree]
    /\ phase' = "done"
    /\ UNCHANGED <<counter, generated, call, stack, evalCalls>>

\* the caller has used the result of its call and goes on; the name generator
\* is global and keeps its counter for the rest of the process
CallerContinues ==
    /\ phase = "done"
    /\ phase' = "idle"
    /\ call' = NoCall
    /\ outcome' = NoOutcome
    /\ UNCHANGED <<counter, generated, stack, ctl, evalCalls>>

EvalStep ==
    \/ EvalRecursionError
    \/ EvalVar
    \/ EvalNum
    \/ EvalLam
    \/ EvalApp
    \/ EvalAppBeta
    \/ EvalAppStuck
    \/ EvalAppReturn
    \/ EvalBinLeft
    \/ EvalBinRight
    \/ EvalBinDone
    \/ EvalNeg
    \/ EvalNegDone
    \/ EvalUnknown
    \/ EvalPropagate
    \/ EvalFinish

Next ==
    \/ CallEvaluate
    \/ CallSubstitute
    \/ CallLinearize
    \/ CallerContinues
    \/ EvalStep

Spec == Init /\ [][Next]_vars

\* the interpreter is single-threaded and synchronous: a call that is running
\* keeps taking steps
FairSpec == Spec /\ WF_vars(EvalStep)

-----------------------------------------------------------------------------
(* Properties *)

Done(op) == phase = "done" /\ call.op = op

\* C1: evaluate never reduces under a lambda: called on Lam(x, b) it returns
\* that very Lam(x, b), b unchanged even when b is a beta-redex, after a
\* single call of evaluate and without consuming a fresh name;
\* \x.(\y.y) x is printed as (\x.((\y.y) x)).
C1_NoReductionUnderLambda ==
    (Done("evaluate") /\ call.tree[1] = "lam") =>
        /\ outcome = Returned(call.tree)
        /\ counter = call.counter0
        /\ evalCalls = 1
        /\ (call.tree = UnderLambda => linearize(outcome.val) = "(\\x.((\\y.y) x))")

C1_Witness ==
    /\ Done("evaluate")
    /\ call.tree = UnderLambda
    /\ outcome = Returned(UnderLambda)

ConstOnes == {ConstOne(D) : D \in Arguments \cup Level1}

\* C2: normal order: evaluate((\x.1) D) terminates with Num 1.0 for every
\* argument D, the divergent (\x.x x)(\x.x x) included, and D is never
\* evaluated: the whole evaluation is the three calls of evaluate on the
\* application, on \x.1 and on 1.
C2_NormalOrder ==
    /\ []((Done("evaluate") /\ call.tree \in ConstOnes) =>
            (outcome = Returned(Num(1)) /\ evalCalls = 3))
    /\ (phase = "running" /\ call.tree \in ConstOnes)
          ~> (Done("evaluate") /\ call.tree \in ConstOnes /\ outcome = Returned(Num(1)))

C2_Witness ==
    /\ Done("evaluate")
    /\ call.tree = ConstOne(Omega)
    /\ outcome = Returned(Num(1))

\* the divergent argument of C2 on its own: its evaluation only ends when the
\* host's recursion limit is hit
OmegaDiverges ==
    (Done("evaluate") /\ call.tree = Omega) => outcome.val[1] = "RecursionError"

\* C3: a stuck application is a residual: when the function of App(f, a)
\* evaluates to a v that is not a Lam, evaluate returns App(v, a) with a the
\* argument of the input, not evaluated (no further call of evaluate, no fresh
\* name); (\x.a x) ((\x.x) b) yields (a ((\x.x) b)).
C3_StuckApplication ==
    /\ [][(ReturnedInto("app_func") /\ ctl.val[1] # "lam") =>
            /\ ctl' = [mode |-> "ret", val |-> <<"app", ctl.val, Top.tree[3]>>]
            /\ stack' = Pop
            /\ evalCalls' = evalCalls
            /\ counter' = counter]_vars
    /\ []((Done("evaluate") /\ call.tree[1] = "app" /\ call.tree[2][1] \in {"var", "num"}) =>
            outcome = Returned(call.tree))
    /\ []((Done("evaluate") /\ call.tree = StuckExample) =>
            /\ outcome = Returned(App(Var("a"), App(Lam("x", Var("x")), Var("b"))))
            /\ linearize(outcome.val) = "(a ((\\x.x) b))")

C3_Witness ==
    /\ Done("evaluate")
    /\ call.tree = StuckExample
    /\ outcome = Returned(App(Var("a"), App(Lam("x", Var("x")), Var("b"))))

RECURSIVE FreeVars(_)

\* the free variables of an expression (Nil has none)
FreeVars(t) ==
    CASE t[1] = "var" -> {t[2]}
      [] t[1] = "lam" -> FreeVars(t[3]) \ {t[2]}
      [] t[1] \in {"app"} \cup BinTags -> FreeVars(t[2]) \cup FreeVars(t[3])
      [] t[1] = "neg" -> FreeVars(t[2])
      [] OTHER -> {}

\* C4: substitution is capture-avoiding: the free variables of
\* substitute(e, x, r) are those of e other than x, together with those of r
\* when x is free in e, so no free variable of r is bound by a binder of e;
\* evaluate((\x.\y. x) y) is a lambda whose binder is a generated name, not y,
\* and whose body is the free variable y.
C4_CaptureAvoiding ==
    /\ (Done("substitute") /\ outcome.kind = "return") =>
          FreeVars(outcome.val) =
             (FreeVars(call.tree) \ {call.name})
             \cup (IF call.name \in FreeVars(call.tree)
                   THEN FreeVars(call.replacement) ELSE {})
    /\ (Done("evaluate") /\ call.tree = HygieneExample) =>
          /\ outcome.kind = "return"
          /\ outcome.val[1] = "lam"
          /\ outcome.val[2] \notin UserNames
          /\ outcome.val[3] = Var("y")

C4_Witness ==
    /\ Done("substitute")
    /\ call.tree = Lam("y", Var("x"))
    /\ call.name = "x"
    /\ call.replacement = Var("y")
    /\ outcome.kind = "return"
    /\ outcome.val[2] # "y"
    /\ outcome.val[3] = Var("y")

Uppercase == {"A", "B", "C", "D", "E", "F", "G", "H", "I", "J", "K", "L", "M",
              "N", "O", "P", "Q", "R", "S", "T", "U", "V", "W", "X", "Y", "Z"}

\* C5: the fresh-name supply: the counter never decreases and grows by one
\* with every name generated; no name is generated twice; every generated
\* name is VarN, begins with an upper-case letter and is no user identifier.
C5_FreshNames ==
    /\ [](/\ Len(generated) = counter
          /\ \A i, j \in 1 .. Len(generated) : i # j => generated[i] # generated[j]
          /\ \A i \in 1 .. Len(generated) :
                /\ generated[i] = "Var" \o ToString(i)
                /\ SubSeq(generated[i], 1, 1) \in Uppercase
                /\ generated[i] \notin UserNames)
    /\ [][/\ counter' >= counter
          /\ Len(generated') >= Len(generated)
          /\ SubSeq(generated', 1, Len(generated)) = generated
          /\ counter' - counter = Len(generated') - Len(generated)]_vars

C5_Witness ==
    /\ phase = "done"
    /\ Len(generated) >= 3
    /\ generated[1] = "Var1"
    /\ generated[2] = "Var2"
    /\ generated[3] = "Var3"

RECURSIVE NormalForm(_)

\* a Num, Nil, Lam or Var, or a stuck residual whose children are normal
NormalForm(t) ==
    CASE t[1] \in {"var", "num", "lam", "nil"} -> TRUE
      [] t[1] = "app" -> t[2][1] # "lam" /\ NormalForm(t[2]) /\ NormalForm(t[3])
      [] t[1] \in BinTags ->
            /\ ~(t[2][1] = "num" /\ t[3][1] = "num")
            /\ NormalForm(t[2]) /\ NormalForm(t[3])
      [] t[1] = "neg" -> t[2][1] # "num" /\ NormalForm(t[2])
      [] OTHER -> FALSE

\* C6: values are fixed points of evaluate: for every e in normal form (a Num,
\* Nil, Lam, or a stuck residual whose children are normal) evaluate(e)
\* returns a tree equal to e.
C6_FixedPoint ==
    (Done("evaluate") /\ NormalForm(call.tree)) => outcome = Returned(call.tree)

\* the arithmetic of the three operators on integers
IntArith(tag, l, r) ==
    CASE tag = "plus" -> l + r
      [] tag = "minus" -> l - r
      [] tag = "times" -> l * r

\* C7: arithmetic reduces only on numeric operands: with both operands
\* evaluated, Plus/Minus/Times returns the Num of their sum, difference or
\* product when both are Num, and otherwise the same operator applied to the
\* two evaluated operands; it returns in both cases.
C7_Arithmetic ==
    /\ [][ReturnedInto("bin_right") =>
            /\ ctl'.mode = "ret"
            /\ stack' = Pop
            /\ IF Top.left[1] = "num" /\ ctl.val[1] = "num"
               THEN /\ ctl'.val[1] = "num"
                    /\ Signed(ctl'.val[2]) =
                          IntArith(Top.tree[1], Signed(Top.left[2]), Signed(ctl.val[2]))
               ELSE ctl'.val = <<Top.tree[1], Top.left, ctl.val>>]_vars
    /\ []((/\ Done("evaluate")
           /\ call.tree[1] \in BinTags
           /\ call.tree[2][1] \in {"var", "num"}
           /\ call.tree[3][1] \in {"var", "num"}) =>
            outcome = Returned(
               IF call.tree[2][1] = "num" /\ call.tree[3][1] = "num"
               THEN Num(IntArith(call.tree[1], Signed(call.tree[2][2]),
                                 Signed(call.tree[3][2])))
               ELSE call.tree))

C7_Witness ==
    /\ Done("evaluate")
    /\ call.tree = Minus(Minus(Num(1), Times(Num(2), Num(3))), Num(4))
    /\ outcome = Returned(Num(-9))

C7_WitnessResidual ==
    /\ Done("evaluate")
    /\ call.tree = Plus(Var("a"), Plus(Num(1), Num(2)))
    /\ outcome = Returned(Plus(Var("a"), Num(3)))

\* C8: recursion via letrec: evaluating
\* letrec f = \n. if n == 0 then 1 else n * f (n - 1) in f k
\* terminates with Num k! for every k of a bounded range (f 4 yields 24.0).
C8_LetRecFactorial ==
    \A k \in FactArgs :
        (Done("evaluate") /\ call.tree = Factorial(k)) =>
            outcome = Returned(Num(Fact(k)))

\* C9: the conditional: evaluate(If(c, t, e)) evaluates c and returns
\* evaluate(e) when c is Num 0.0, evaluate(t) when c is any other Num, and the
\* residual If(c_val, t, e) otherwise (stated on conditionals whose condition
\* is a number or a free variable and whose selected branch is a number).
C9_Conditional ==
    (/\ Done("evaluate")
     /\ call.tree[1] = "if"
     /\ call.tree[2][1] \in {"var", "num"}) =>
        outcome = Returned(
           IF call.tree[2][1] = "num"
           THEN (IF call.tree[2][2].mag = 0 THEN call.tree[4] ELSE call.tree[3])
           ELSE call.tree)

\* C10: a malformed AST is a fault in all three passes: evaluate, substitute
\* and linearize, called on a node whose tag is no known variant, end in an
\* exception.
C10_UnknownNodeFaults ==
    (phase = "done" /\ call.op # "none" /\ call.tree[1] \notin KnownTags) =>
        outcome.kind = "raise"

\* C10, as amended: evaluate and substitute, called on a node whose tag is no
\* known variant, raise Exception ('Unknown node', 'Unknown tree'), and the
\* exception is never caught on the way out; linearize does not raise: it
\* returns str(node), the text of the Python tuple.
C10_UnknownNodeAmended ==
    /\ []((Done("evaluate") /\ call.tree[1] \notin KnownTags) =>
            outcome = Raised("Exception", "Unknown node"))
    /\ []((Done("substitute") /\ call.tree[1] \notin KnownTags) =>
            outcome = Raised("Exception", "Unknown tree"))
    /\ []((Done("linearize") /\ call.tree[1] \notin KnownTags) =>
            outcome = Returned(Text(PyStr(call.tree))))
    /\ [][(phase = "running" /\ ctl.mode = "call" /\ ctl.val[1] \notin KnownTags) =>
            ctl'.mode = "raise"]_vars
    /\ [][(phase = "running" /\ ctl.mode = "raise") =>
            \/ ctl' = ctl
            \/ outcome' = Raised(ctl.val[1], ctl.val[2])]_vars

C10_Witness ==
    /\ Done("linearize")
    /\ call.tree = Nil
    /\ outcome = Returned(Text("('nil',)"))

C10_WitnessEvaluate ==
    /\ Done("evaluate")
    /\ call.tree = Plus(Nil, Num(1))
    /\ outcome = Raised("Exception", "Unknown node")

====
